---- MODULE Spec2Model ----
(***************************************************************************)
(* rsession: the session lifecycle of the actix, axum and salvo            *)
(* middlewares over the Redis session store.                               *)
(*                                                                         *)
(* A request is loaded (cookie -> SessionInner), handed to the handler,    *)
(* which calls the Session API, and finalized: the record's status selects *)
(* the store operations, and the Set-Cookie header is attached.  Every     *)
(* store operation is an await point, a step of its own, and may fail.     *)
(* Spec serves the requests one after the other; generated ids are fresh.  *)
(***************************************************************************)
EXTENDS Integers, Sequences, FiniteSets, TLC

VARIABLES
    adapter,      \* which framework binding serves the requests
    auto_expire,  \* SessionBuilder.auto_expire
    builder,      \* SessionBuilder: the cookie settings
    storage,      \* the session store object: its kind and key prefix
    outcome,      \* what the last call made outside a request came to
    store,        \* the Redis keyspace: session key -> [data, ttl]
    nextId,       \* how many ids the generators have produced
    issued,       \* ids the clients have seen in a Set-Cookie
    started,      \* requests started so far
    failures,     \* store operations that failed so far
    req,          \* per request slot: position, record, operations issued
    chain         \* history of the counter client of the tests

vars == <<adapter, auto_expire, builder, storage, outcome, store, nextId, issued, started, failures, req, chain>>

----------------------------------------------------------------------------
(* Bounds *)

MaxRequests == 2
MaxCalls == 2
MaxCount == 2
MaxFailures == 1
MaxOps == 3

(* SessionBuilder::default: expire_time = Duration::days(7), in seconds *)
ExpireSecs == 604800

Reqs == {"r1"}
Adapters == {"actix", "axum", "salvo"}
Keys == {"count"}

(* Option<T> *)
None == <<>>
Some(x) == <<x>>

(* A cookie value no generator of this process produced *)
ForgedIds == {0}

(* HashMap::new() *)
EmptyMap == [k \in {} |-> <<>>]

----------------------------------------------------------------------------
(* serde_json on i32 and on &str: decimal text, quoted text *)

DigitChars == <<"0", "1", "2", "3", "4", "5", "6", "7", "8", "9">>

RECURSIVE ToStringI32(_)
ToStringI32(n) ==
    IF n < 10 THEN <<DigitChars[n + 1]>>
    ELSE ToStringI32(n \div 10) \o <<DigitChars[(n % 10) + 1]>>

DigitOf(c) == CHOOSE d \in 0..9 : DigitChars[d + 1] = c

IsDigit(c) == \E d \in 0..9 : DigitChars[d + 1] = c

RECURSIVE ParseDigits(_)
ParseDigits(s) ==
    IF Len(s) = 1 THEN DigitOf(s[1])
    ELSE 10 * ParseDigits(SubSeq(s, 1, Len(s) - 1)) + DigitOf(s[Len(s)])

(* serde_json::from_str::<i32>: Some(n) or None on text that is no number *)
FromStrI32(s) ==
    IF /\ Len(s) > 0
       /\ \A i \in 1..Len(s) : IsDigit(s[i])
       /\ (Len(s) > 1 => s[1] # "0")
    THEN Some(ParseDigits(s))
    ELSE None

(* Values a handler stores: an i32, a finite f64 (whole-numbered here), a
   non-finite f64, and a map whose keys are not strings *)
I32(n) == [type |-> "i32", class |-> "finite", v |-> n]
F64(n) == [type |-> "f64", class |-> "finite", v |-> n]
F64Infinity == [type |-> "f64", class |-> "infinite", v |-> 0]
TupleKeyMap == [type |-> "map", class |-> "tuple keys", v |-> 0]

(* serde_json::to_string: a non-finite float is written as null, a map
   with non-string keys is an error (None) *)
ToJson(value) ==
    CASE value.type = "i32" -> Some(ToStringI32(value.v))
      [] value.type = "f64" ->
            IF value.class = "infinite" THEN Some(<<"n", "u", "l", "l">>)
            ELSE Some(ToStringI32(value.v) \o <<".", "0">>)
      [] value.type = "map" -> None

(* serde_json::from_str::<f64>: a number, with or without a fraction *)
FromStrF64(s) ==
    IF FromStrI32(s) # None THEN FromStrI32(s)
    ELSE IF /\ Len(s) > 2
            /\ SubSeq(s, Len(s) - 1, Len(s)) = <<".", "0">>
            /\ FromStrI32(SubSeq(s, 1, Len(s) - 2)) # None
         THEN FromStrI32(SubSeq(s, 1, Len(s) - 2))
         ELSE None

(* serde_json::from_str::<T> *)
FromStr(type, s) ==
    CASE type = "i32" -> FromStrI32(s)
      [] type = "f64" -> FromStrF64(s)

----------------------------------------------------------------------------
(* SessionInner *)

Statuses == {"UnChange", "Change", "Clear", "Destroy", "Expire"}

Default(uuid) == [id |-> uuid, data |-> EmptyMap, status |-> "UnChange"]

New(id) == [Default(id) EXCEPT !.id = id, !.status = "Change"]

GetI32(inner, key) ==
    IF key \in DOMAIN inner.data THEN FromStrI32(inner.data[key]) ELSE None

(* get::<T>: data.get(key).and_then(|s| from_str::<T>(s).ok()) *)
GetAs(inner, key, type) ==
    IF key \in DOMAIN inner.data THEN FromStr(type, inner.data[key]) ELSE None

Set(inner, key, s) ==
    [inner EXCEPT
        !.data = [k \in DOMAIN inner.data \cup {key} |->
                      IF k = key THEN s ELSE inner.data[k]],
        !.status = "Change"]

(* A set that marks the record although the value could not be written *)
SetValueMarksAnyway(inner, key, value) ==
    IF ToJson(value) = None
    THEN [ok |-> FALSE, inner |-> [inner EXCEPT !.status = "Change"]]
    ELSE [ok |-> TRUE, inner |-> Set(inner, key, ToJson(value)[1])]

(* set<T: Serialize>: Ok and the record changed, or Err and nothing done *)
SetValue(inner, key, value) ==
    IF ToJson(value) = None
    THEN [ok |-> FALSE, inner |-> inner]
    ELSE [ok |-> TRUE, inner |-> Set(inner, key, ToJson(value)[1])]

(* A remove that marks the record only when it held the key *)
RemoveIfPresent(inner, key) ==
    IF key \in DOMAIN inner.data
    THEN [inner EXCEPT
            !.data = [k \in DOMAIN inner.data \ {key} |-> inner.data[k]],
            !.status = "Change"]
    ELSE inner

Remove(inner, key) ==
    [inner EXCEPT
        !.data = [k \in DOMAIN inner.data \ {key} |-> inner.data[k]],
        !.status = "Change"]

(* A clear that marks the record as destroyed *)
ClearDestroys(inner) == [inner EXCEPT !.data = EmptyMap, !.status = "Destroy"]

(* A clear that starts a new record over, under another id *)
ClearStartsOver(inner) ==
    [inner EXCEPT !.id = @ + 1, !.data = EmptyMap, !.status = "Clear"]

(* A clear that resets the record to its default state *)
ClearToDefault(inner) == [inner EXCEPT !.data = EmptyMap, !.status = "UnChange"]

(* clear() that wipes the data and forgets the status *)
ClearKeepsStatus(inner) == [inner EXCEPT !.data = EmptyMap]

Clear(inner) == [inner EXCEPT !.data = EmptyMap, !.status = "Clear"]

----------------------------------------------------------------------------
(* Store operations, as issued by the middlewares *)

OpGet(id) == [op |-> "get", key |-> id, data |-> EmptyMap, ttl |-> 0]
OpSet(id, d) == [op |-> "set", key |-> id, data |-> d, ttl |-> 0]
OpRemove(id) == [op |-> "remove", key |-> id, data |-> EmptyMap, ttl |-> 0]
OpExpire(id, t) == [op |-> "expire", key |-> id, data |-> EmptyMap, ttl |-> t]

Logged(o, ok) == [op |-> o.op, key |-> o.key, data |-> o.data, ttl |-> o.ttl, ok |-> ok]

(* serde_json::to_string(&value.data): the map as JSON text, here the list of
   its key/value pairs; serde_json::from_str::<HashMap<String, String>> reads
   it back, a repeated key keeping its last value. The id and the status are
   not part of the text. *)
RECURSIVE ToJsonMap(_)
ToJsonMap(d) ==
    IF DOMAIN d = {} THEN <<>>
    ELSE LET k == CHOOSE x \in DOMAIN d : TRUE
         IN <<(<<k, d[k]>>)>> \o ToJsonMap([j \in DOMAIN d \ {k} |-> d[j]])

FromJsonMap(t) ==
    [k \in {t[i][1] : i \in 1..Len(t)} |->
        t[CHOOSE i \in 1..Len(t) :
              /\ t[i][1] = k
              /\ \A j \in (i + 1)..Len(t) : t[j][1] # k][2]]

(* Redis SET, DEL, EXPIRE on the keyspace *)
RedisSet(s, key, text) ==
    [k \in DOMAIN s \cup {key} |->
        IF k = key THEN [value |-> text, ttl |-> None] ELSE s[k]]

(* DEL that leaves the key in place *)
RedisDelKeeps(s, key) == s

RedisDel(s, key) == [k \in DOMAIN s \ {key} |-> s[k]]

RedisExpire(s, key, t) ==
    [k \in DOMAIN s |-> IF k = key THEN [s[k] EXCEPT !.ttl = Some(t)] ELSE s[k]]

Apply(s, o) ==
    CASE o.op = "set" -> RedisSet(s, o.key, ToJsonMap(o.data))
      [] o.op = "remove" -> RedisDel(s, o.key)
      [] o.op = "expire" -> RedisExpire(s, o.key, o.ttl)
      [] OTHER -> s

(* get that forgets to put the stored map into the record *)
StoreGetNoData(s, key, connOk, fresh) ==
    IF connOk /\ key \in DOMAIN s THEN Some(New(fresh)) ELSE None

(* get that returns the stored record as unchanged *)
StoreGetUnChanged(s, key, connOk, fresh) ==
    IF connOk /\ key \in DOMAIN s
    THEN Some([Default(fresh) EXCEPT !.data = FromJsonMap(s[key].value)])
    ELSE None

(* RedisSessionStorage::get: Err (None) when no connection is to be had or
   the key holds nothing; otherwise a record built by SessionInner::new on an
   id of the store's own generator, holding the stored map *)
StoreGet(s, key, connOk, fresh) ==
    IF connOk /\ key \in DOMAIN s
    THEN Some([New(fresh) EXCEPT !.data = FromJsonMap(s[key].value)])
    ELSE None

----------------------------------------------------------------------------
(* SessionBuilder: the cookie *)

BrowserLifeCycle == [kind |-> "BrowserLifeCycle"]
PersistentStorage(d) == [kind |-> "PersistentStorage", duration |-> d]

(* RandKey; len is 0 for the two UUID strategies *)
Random(len) == [kind |-> "Random", len |-> len]
RandomSha256(len) == [kind |-> "RandomSha256", len |-> len]
UuidV4 == [kind |-> "UuidV4", len |-> 0]
UuidV7 == [kind |-> "UuidV7", len |-> 0]

(* No call made yet *)
NoOutcome == [call |-> "none", arg |-> UuidV7, ok |-> TRUE]

(* RedisSessionStorage::new: no prefix *)
RedisNew == [kind |-> "redis", prefix |-> <<>>]

(* SessionBuilder::default: auto_expire: true *)
DefaultAutoExpire == TRUE

(* SessionBuilder::default, the fields the cookie is built from *)
DefaultBuilder ==
    [key |-> "session_key", path |-> "/", domain |-> "",
     secure |-> TRUE, http_only |-> TRUE, max_age |-> None,
     same_site |-> None, refresh_strategy |-> BrowserLifeCycle,
     rand_key |-> UuidV7]

(* What the setters key, path, domain, secure, http_only, max_age,
   same_site and refresh_strategy can make of it; durations in seconds *)
Builders ==
    [key : {"session_key", "sid"},
     path : {"/"},
     domain : {"", "example.com"},
     secure : BOOLEAN,
     http_only : BOOLEAN,
     max_age : {None, Some(3600)},
     same_site : {None, Some("Strict")},
     refresh_strategy : {BrowserLifeCycle, PersistentStorage(86400)},
     rand_key : {UuidV7}]

(* The bounds of rand_key's assertions *)
RandKeyLenAbove == 64
RandKeyLenBelow == 1024

(* A rand_key whose bounds are themselves allowed *)
RandKeyAcceptsInclusive(rand_key) ==
    \/ rand_key.kind \in {"UuidV4", "UuidV7"}
    \/ rand_key.len >= RandKeyLenAbove /\ rand_key.len <= RandKeyLenBelow

(* SessionBuilder::rand_key: the assertions pass (else the call panics) *)
RandKeyAccepts(rand_key) ==
    \/ rand_key.kind \in {"UuidV4", "UuidV7"}
    \/ rand_key.len > RandKeyLenAbove /\ rand_key.len < RandKeyLenBelow

(* A build that derives Expires from max_age, whatever the strategy *)
BuildExpiresByMaxAge(b, id) ==
    [name |-> b.key, value |-> id,
     domain |-> Some(b.domain), path |-> Some(b.path),
     http_only |-> Some(b.http_only), secure |-> Some(b.secure),
     same_site |-> b.same_site,
     expires |-> IF b.max_age = None THEN None
                 ELSE Some([now_plus |-> b.max_age[1]]),
     max_age |-> b.max_age]

(* SessionBuilder::build: Cookie::new(key, id), then the setters; the
   cookie's fields are Options, set_expires takes now_utc() + duration *)
Build(b, id) ==
    [name |-> b.key, value |-> id,
     domain |-> Some(b.domain), path |-> Some(b.path),
     http_only |-> Some(b.http_only), secure |-> Some(b.secure),
     same_site |-> b.same_site,
     expires |-> IF b.refresh_strategy.kind = "BrowserLifeCycle" THEN None
                 ELSE Some([now_plus |-> b.refresh_strategy.duration]),
     max_age |-> b.max_age]

----------------------------------------------------------------------------
(* Load: the record the handler starts from *)

LoadNoCookie(ad, fresh) ==
    IF ad = "salvo" THEN Default(fresh) ELSE New(fresh)

(* A miss answered with SessionInner::default() in place of new() *)
LoadMissDefault(ad, session_key, fresh) ==
    IF ad = "axum" THEN Default(fresh) ELSE Default(session_key)

LoadMiss(ad, session_key, fresh) ==
    IF ad = "axum" THEN New(fresh) ELSE New(session_key)

(* The generator of the id of the record that load hands to the handler:
   the SessionBuilder's rand_key, the store's own rand_key inside get, the
   UUIDv7 of SessionInner::default, or none (the id of the cookie is kept) *)
IdGenerator(ad, path) ==
    CASE path = "nocookie" -> IF ad = "salvo" THEN "default" ELSE "builder"
      [] path = "hit" -> "store"
      [] path = "miss" -> IF ad = "axum" THEN "builder" ELSE "cookie"
      [] OTHER -> "none"

(* An actix finalize whose Change branch writes before it removes *)
ActixFinalizeSetFirst(inner, auto) ==
    CASE inner.status = "UnChange" ->
            <<OpSet(inner.id, inner.data)>>
            \o (IF auto THEN <<OpExpire(inner.id, ExpireSecs)>> ELSE <<>>)
      [] inner.status = "Change" ->
            <<OpSet(inner.id, inner.data), OpRemove(inner.id),
              OpExpire(inner.id, ExpireSecs)>>
      [] inner.status = "Clear" -> <<OpRemove(inner.id)>>
      [] inner.status = "Destroy" -> <<OpRemove(inner.id)>>
      [] inner.status = "Expire" -> <<OpExpire(inner.id, ExpireSecs)>>

(* A salvo finalize that does not rewrite an unchanged record *)
SalvoFinalizeNoRewrite(inner, auto) ==
    CASE inner.status = "UnChange" ->
            (IF auto THEN <<OpExpire(inner.id, ExpireSecs)>> ELSE <<>>)
      [] inner.status = "Change" ->
            <<OpRemove(inner.id), OpSet(inner.id, inner.data),
              OpExpire(inner.id, ExpireSecs)>>
      [] inner.status = "Clear" -> <<OpRemove(inner.id)>>
      [] inner.status = "Destroy" -> <<OpRemove(inner.id)>>
      [] inner.status = "Expire" -> <<OpExpire(inner.id, ExpireSecs)>>

(* Finalize: the store operations the final status selects, in order *)
ActixFinalize(inner, auto) ==
    CASE inner.status = "UnChange" ->
            <<OpSet(inner.id, inner.data)>>
            \o (IF auto THEN <<OpExpire(inner.id, ExpireSecs)>> ELSE <<>>)
      [] inner.status = "Change" ->
            <<OpRemove(inner.id), OpSet(inner.id, inner.data),
              OpExpire(inner.id, ExpireSecs)>>
      [] inner.status = "Clear" -> <<OpRemove(inner.id)>>
      [] inner.status = "Destroy" -> <<OpRemove(inner.id)>>
      [] inner.status = "Expire" -> <<OpExpire(inner.id, ExpireSecs)>>

(* An axum finalize whose Expire branch writes the record back as well *)
AxumFinalizeTouchRewrites(inner, auto) ==
    CASE inner.status = "UnChange" ->
            (IF auto THEN <<OpExpire(inner.id, ExpireSecs)>> ELSE <<>>)
            \o <<OpSet(inner.id, inner.data)>>
      [] inner.status = "Change" ->
            <<OpRemove(inner.id), OpSet(inner.id, inner.data),
              OpExpire(inner.id, ExpireSecs)>>
      [] inner.status = "Clear" -> <<OpRemove(inner.id)>>
      [] inner.status = "Destroy" -> <<OpRemove(inner.id)>>
      [] inner.status = "Expire" ->
            <<OpSet(inner.id, inner.data), OpExpire(inner.id, ExpireSecs)>>

AxumFinalize(inner, auto) ==
    CASE inner.status = "UnChange" ->
            (IF auto THEN <<OpExpire(inner.id, ExpireSecs)>> ELSE <<>>)
            \o <<OpSet(inner.id, inner.data)>>
      [] inner.status = "Change" ->
            <<OpRemove(inner.id), OpSet(inner.id, inner.data),
              OpExpire(inner.id, ExpireSecs)>>
      [] inner.status = "Clear" -> <<OpRemove(inner.id)>>
      [] inner.status = "Destroy" -> <<OpRemove(inner.id)>>
      [] inner.status = "Expire" -> <<OpExpire(inner.id, ExpireSecs)>>

SalvoFinalize(inner, auto) ==
    CASE inner.status = "UnChange" ->
            (IF auto THEN <<OpExpire(inner.id, ExpireSecs)>> ELSE <<>>)
            \o <<OpSet(inner.id, inner.data)>>
      [] inner.status = "Change" ->
            <<OpRemove(inner.id), OpSet(inner.id, inner.data),
              OpExpire(inner.id, ExpireSecs)>>
      [] inner.status = "Clear" -> <<OpRemove(inner.id)>>
      [] inner.status = "Destroy" -> <<OpRemove(inner.id)>>
      [] inner.status = "Expire" -> <<OpExpire(inner.id, ExpireSecs)>>

FinalizeOps(ad, inner, auto) ==
    CASE ad = "actix" -> ActixFinalize(inner, auto)
      [] ad = "axum" -> AxumFinalize(inner, auto)
      [] ad = "salvo" -> SalvoFinalize(inner, auto)

----------------------------------------------------------------------------
(* The Set-Cookie values of a response's header map, in order *)

(* HeaderMap::append: one more value under the name *)
HeaderAppend(headers, value) == Append(headers, value)

(* HeaderMap::insert: the value takes the place of every value the map held
   under the name *)
HeaderInsert(headers, value) == <<value>>

----------------------------------------------------------------------------
(* State *)

IdleReq ==
    [pc |-> "idle", cookie |-> None, inner |-> Default(0), path |-> "none",
     id0 |-> 0, stored |-> EmptyMap, finFrom |-> 0, ncalls |-> 0, onlyGets |-> TRUE, lastMut |-> "none",
     read |-> None, wrote |-> None,
     pending |-> <<>>, log |-> <<>>, resp |-> None, err |-> "none", doneAt |-> 0,
     overlapped |-> FALSE, set_cookie |-> None,
     trace |-> <<>>,
     wrapped |-> TRUE, app_data |-> FALSE, extracted |-> "no",
     held |-> FALSE, put |-> <<>>, headers |-> <<>>]

BrokenChain == [ok |-> FALSE, jar |-> None, last |-> 0]

(* The counter client stays in its scenario while cond holds *)
Keep(cond) == IF chain.ok /\ cond THEN chain ELSE BrokenChain

Others(r) == DOMAIN req \ {r}

(* Another request is in flight and has not begun its finalize *)
Overlapping(r) ==
    \E q \in Others(r) : req[q].pc \in {"load", "load_remove", "handler"}

(* A store operation succeeds, or fails (no connection, a Redis error) *)
Outcome(connOk) ==
    /\ ~connOk => failures < MaxFailures
    /\ failures' = IF connOk THEN failures ELSE failures + 1

Init ==
    /\ adapter \in Adapters
    /\ auto_expire \in BOOLEAN
    /\ builder = DefaultBuilder
    /\ storage = RedisNew
    /\ outcome = NoOutcome
    /\ store = [k \in {} |-> <<>>]
    /\ nextId = 0
    /\ issued = {}
    /\ started = 0
    /\ failures = 0
    /\ req = [r \in Reqs |-> IdleReq]
    /\ chain = [ok |-> TRUE, jar |-> None, last |-> 0]

(* A request arrives, with no session cookie or with one the client holds *)
StartRequest(r, c) ==
    /\ req[r].pc = "idle"
    /\ started < MaxRequests
    /\ started' = started + 1
    /\ req' = [req EXCEPT ![r] = [IdleReq EXCEPT !.pc = "load", !.cookie = c]]
    /\ chain' = Keep(c = chain.jar /\ \A q \in Others(r) : req[q].pc = "idle")
    /\ UNCHANGED <<adapter, auto_expire, builder, storage, outcome, store, nextId, issued, failures>>

(* No cookie: a record on a generated id *)
LoadFresh(r) ==
    /\ req[r].pc = "load"
    /\ req[r].cookie = None
    /\ nextId' = nextId + 1
    /\ req' = [req EXCEPT ![r].pc = "handler",
                          ![r].path = "nocookie",
                          ![r].id0 = LoadNoCookie(adapter, nextId + 1).id,
                          ![r].inner = LoadNoCookie(adapter, nextId + 1)]
    /\ UNCHANGED <<adapter, auto_expire, builder, storage, outcome, store, issued, started, failures, chain>>

(* Cookie present: store.get(session_key).await *)
LoadGet(r, connOk) ==
    /\ req[r].pc = "load"
    /\ req[r].cookie # None
    /\ LET session_key == req[r].cookie[1]
           got == StoreGet(store, session_key, connOk, nextId + 1)
           logged == Append(req[r].log, Logged(OpGet(session_key), connOk))
       IN IF got # None
          THEN /\ nextId' = nextId + 1
               /\ req' = [req EXCEPT
                     ![r].pc = IF adapter = "actix" THEN "load_remove" ELSE "handler",
                     ![r].path = "hit",
                     ![r].overlapped = Overlapping(r),
                     ![r].stored = FromJsonMap(store[session_key].value),
                     ![r].held = TRUE,
                     ![r].id0 = got[1].id,
                     ![r].inner = got[1],
                     ![r].log = logged]
          ELSE /\ nextId' = IF adapter = "axum" THEN nextId + 1 ELSE nextId
               /\ req' = [req EXCEPT
                     ![r].pc = "handler",
                     ![r].path = "miss",
                     ![r].overlapped = Overlapping(r),
                     ![r].stored = IF session_key \in DOMAIN store
                                   THEN FromJsonMap(store[session_key].value)
                                   ELSE EmptyMap,
                     ![r].held = session_key \in DOMAIN store,
                     ![r].id0 = LoadMiss(adapter, session_key, nextId + 1).id,
                     ![r].inner = LoadMiss(adapter, session_key, nextId + 1),
                     ![r].log = logged]
    /\ Outcome(connOk)
    /\ chain' = Keep(connOk)
    /\ UNCHANGED <<adapter, auto_expire, builder, storage, outcome, store, issued, started>>

(* actix, after a hit: store.remove(&session_key).await.ok() *)
LoadRemove(r, connOk) ==
    /\ req[r].pc = "load_remove"
    /\ LET o == OpRemove(req[r].cookie[1])
       IN /\ store' = IF connOk THEN Apply(store, o) ELSE store
          /\ req' = [req EXCEPT ![r].pc = "handler",
                                ![r].log = Append(@, Logged(o, connOk))]
    /\ Outcome(connOk)
    /\ chain' = Keep(connOk)
    /\ UNCHANGED <<adapter, auto_expire, builder, storage, outcome, nextId, issued, started>>

----------------------------------------------------------------------------
(* The handler: calls on the Session it was handed *)

InHandler(r) == req[r].pc = "handler" /\ req[r].ncalls < MaxCalls

(* A record kept per session id: the call shows in every request that
   presented the same cookie *)
CalledShared(r, kind, mut, inner) ==
    [q \in DOMAIN req |->
        IF q = r
        THEN [req[q] EXCEPT !.ncalls = @ + 1,
                            !.onlyGets = @ /\ kind = "get",
                            !.lastMut = IF mut THEN kind ELSE @,
                            !.inner = inner]
        ELSE IF req[q].pc = "handler" /\ req[q].cookie = req[r].cookie
             THEN [req[q] EXCEPT !.inner = inner]
             ELSE req[q]]


(* The values the handlers of the model may store under a key *)
SetValues == {ToStringI32(1)}

Called(r, kind, mut, inner) ==
    [req EXCEPT ![r].ncalls = @ + 1,
                ![r].onlyGets = @ /\ kind = "get",
                ![r].lastMut = IF mut THEN kind ELSE @,
                ![r].inner = inner]

(* Session::get: reads, changes nothing *)
SessionGet(r, key) ==
    /\ InHandler(r)
    /\ req' = Called(r, "get", FALSE, req[r].inner)
    /\ chain' = Keep(FALSE)
    /\ UNCHANGED <<adapter, auto_expire, builder, storage, outcome, store, nextId, issued, started, failures>>

SessionSet(r, key, s) ==
    /\ InHandler(r)
    /\ req' = Called(r, "set", TRUE, Set(req[r].inner, key, s))
    /\ chain' = Keep(FALSE)
    /\ UNCHANGED <<adapter, auto_expire, builder, storage, outcome, store, nextId, issued, started, failures>>

SessionRemove(r, key) ==
    /\ InHandler(r)
    /\ req' = Called(r, "remove", TRUE, Remove(req[r].inner, key))
    /\ chain' = Keep(FALSE)
    /\ UNCHANGED <<adapter, auto_expire, builder, storage, outcome, store, nextId, issued, started, failures>>

SessionClear(r) ==
    /\ InHandler(r)
    /\ req' = Called(r, "clear", TRUE, Clear(req[r].inner))
    /\ chain' = Keep(FALSE)
    /\ UNCHANGED <<adapter, auto_expire, builder, storage, outcome, store, nextId, issued, started, failures>>

SessionLen(r) ==
    /\ InHandler(r)
    /\ req' = Called(r, "len", FALSE, req[r].inner)
    /\ chain' = Keep(FALSE)
    /\ UNCHANGED <<adapter, auto_expire, builder, storage, outcome, store, nextId, issued, started, failures>>

(* The handler of the tests: no count yet -> write 1, else write count + 1 *)
Index(inner) ==
    LET got == GetI32(inner, "count")
    IN IF got = None THEN Set(inner, "count", ToStringI32(1))
       ELSE Set(inner, "count", ToStringI32(got[1] + 1))

HandlerIndex(r) ==
    /\ InHandler(r)
    /\ LET got == GetI32(req[r].inner, "count")
           after == Index(req[r].inner)
       IN /\ got # None => got[1] < MaxCount
          /\ req' = [Called(r, "index", TRUE, after) EXCEPT
                        ![r].read = got,
                        ![r].wrote = GetI32(after, "count")]
    /\ chain' = Keep(req[r].ncalls = 0)
    /\ UNCHANGED <<adapter, auto_expire, builder, storage, outcome, store, nextId, issued, started, failures>>

(* actix: service.call(req).await? -- the wrapped service returns Err and the
   middleware returns it at once: no finalize, no cookie. axum's service is
   Infallible and salvo's call_next returns nothing. *)
ServiceErr(r) ==
    /\ req[r].pc = "handler"
    /\ adapter = "actix"
    /\ req' = [req EXCEPT ![r].pc = "failed", ![r].err = "service"]
    /\ chain' = Keep(FALSE)
    /\ UNCHANGED <<adapter, auto_expire, builder, storage, outcome, store, nextId, issued, started, failures>>

(* The error reaches the client: a response without the session cookie *)
Abort(r) ==
    /\ req[r].pc = "failed"
    /\ req' = [req EXCEPT ![r] = IdleReq]
    /\ UNCHANGED <<adapter, auto_expire, builder, storage, outcome, store, nextId, issued, started, failures, chain>>

----------------------------------------------------------------------------
(* Finalize *)

(* The order in which the requests end *)
EndOrder(r) ==
    LET Max(S) == CHOOSE m \in S : \A x \in S : x <= m
    IN 1 + Max({req[q].doneAt : q \in DOMAIN req})

(* Finalize with ? in place of .ok(): a failed operation ends the branch *)
AfterOpAbort(pending, connOk) == IF connOk THEN Tail(pending) ELSE <<>>

(* store.<op>(..).await.ok(): whatever the outcome, on to the next operation *)
AfterOp(pending, connOk) == Tail(pending)

(* The handler has returned: the status selects the branch. axum attaches the
   cookie before its store operations, actix and salvo after the last one,
   with no await in between. *)
FinalizeBegin(r) ==
    /\ req[r].pc = "handler"
    /\ LET ops == FinalizeOps(adapter, req[r].inner, auto_expire)
       IN req' = [req EXCEPT
             ![r].pc = IF ops = <<>> THEN "done" ELSE "finalize",
             ![r].doneAt = IF ops = <<>> THEN EndOrder(r) ELSE 0,
             ![r].pending = ops,
             ![r].finFrom = Len(req[r].log),
             ![r].resp = IF adapter = "axum" \/ ops = <<>>
                         THEN Some(req[r].inner.id) ELSE None,
             ![r].set_cookie = IF adapter = "axum" \/ ops = <<>>
                               THEN Some(Build(builder, req[r].inner.id))
                               ELSE None,
             ![r].headers = IF adapter = "axum" \/ ops = <<>>
                            THEN HeaderInsert(@, Build(builder, req[r].inner.id))
                            ELSE @]
    /\ chain' = Keep(req[r].lastMut = "index")
    /\ UNCHANGED <<adapter, auto_expire, builder, storage, outcome, store, nextId, issued, started, failures>>

(* One store operation of the branch, its error discarded by .ok() *)
FinalizeStep(r, connOk) ==
    /\ req[r].pc = "finalize"
    /\ LET o == Head(req[r].pending)
           rest == AfterOp(req[r].pending, connOk)
           last == rest = <<>>
       IN /\ store' = IF connOk THEN Apply(store, o) ELSE store
          /\ req' = [req EXCEPT
                ![r].pc = IF last THEN "done" ELSE "finalize",
                ![r].doneAt = IF last THEN EndOrder(r) ELSE 0,
                ![r].pending = rest,
                ![r].log = Append(@, Logged(o, connOk)),
                ![r].resp = IF last THEN Some(req[r].inner.id) ELSE @,
                ![r].set_cookie = IF last
                                  THEN Some(Build(builder, req[r].inner.id))
                                  ELSE @,
                ![r].headers = IF last /\ adapter # "axum"
                               THEN HeaderInsert(@, Build(builder, req[r].inner.id))
                               ELSE @]
    /\ Outcome(connOk)
    /\ chain' = Keep(connOk)
    /\ UNCHANGED <<adapter, auto_expire, builder, storage, outcome, nextId, issued, started>>

(* The response reaches the client, which keeps the cookie *)
Respond(r) ==
    /\ req[r].pc = "done"
    /\ req' = [req EXCEPT ![r] = IdleReq]
    /\ issued' = issued \cup {req[r].resp[1]}
    /\ chain' = IF chain.ok
                THEN [chain EXCEPT !.jar = req[r].resp, !.last = req[r].wrote[1]]
                ELSE chain
    /\ UNCHANGED <<adapter, auto_expire, builder, storage, outcome, store, nextId, started, failures>>

Next ==
    \E r \in Reqs :
        \/ \E c \in {None} \cup {Some(i) : i \in issued \cup ForgedIds} : StartRequest(r, c)
        \/ LoadFresh(r)
        \/ \E connOk \in BOOLEAN : LoadGet(r, connOk)
        \/ \E connOk \in BOOLEAN : LoadRemove(r, connOk)
        \/ \E key \in Keys : SessionGet(r, key)
        \/ \E key \in Keys, s \in SetValues : SessionSet(r, key, s)
        \/ \E key \in Keys : SessionRemove(r, key)
        \/ SessionClear(r)
        \/ SessionLen(r)
        \/ HandlerIndex(r)
        \/ ServiceErr(r)
        \/ Abort(r)
        \/ FinalizeBegin(r)
        \/ \E connOk \in BOOLEAN : FinalizeStep(r, connOk)
        \/ Respond(r)

Spec == Init /\ [][Next]_vars

----------------------------------------------------------------------------
(* Overlapping requests. A first request of the index handler has been
   served: the store holds its record, count = 1, under the id of its cookie.
   Two requests that present that cookie are then in flight together, their
   steps interleaved at every await, every store operation succeeding. *)

Slots == {"r1", "r2"}

ServedOnce ==
    /\ store = RedisExpire(RedisSet([k \in {} |-> <<>>], 1,
                                    ToJsonMap(Index(New(1)).data)),
                           1, ExpireSecs)
    /\ nextId = 1
    /\ issued = {1}

InitOverlap ==
    /\ adapter \in Adapters
    /\ auto_expire \in BOOLEAN
    /\ builder = DefaultBuilder
    /\ storage = RedisNew
    /\ outcome = NoOutcome
    /\ ServedOnce
    /\ started = 0
    /\ failures = 0
    /\ req = [r \in Slots |-> IdleReq]
    /\ chain = BrokenChain

NextOverlap ==
    \E r \in Slots :
        \/ \E i \in issued : StartRequest(r, Some(i))
        \/ LoadGet(r, TRUE)
        \/ LoadRemove(r, TRUE)
        \/ \E key \in Keys, s \in SetValues : SessionSet(r, key, s)
        \/ \E key \in Keys : SessionRemove(r, key)
        \/ SessionClear(r)
        \/ FinalizeBegin(r)
        \/ FinalizeStep(r, TRUE)
        \/ Respond(r)

SpecOverlap == InitOverlap /\ [][NextOverlap]_vars

----------------------------------------------------------------------------
(* Cookie settings. Any configuration the setters allow; requests arrive
   without a cookie, the handler sets a value, clears the session or leaves
   it alone, and finalize builds the cookie. *)

InitCookie ==
    /\ adapter \in Adapters
    /\ auto_expire = DefaultAutoExpire
    /\ builder \in Builders
    /\ storage = RedisNew
    /\ outcome = NoOutcome
    /\ store = [k \in {} |-> <<>>]
    /\ nextId = 0
    /\ issued = {}
    /\ started = 0
    /\ failures = 0
    /\ req = [r \in Reqs |-> IdleReq]
    /\ chain = BrokenChain

NextCookie ==
    \E r \in Reqs :
        \/ StartRequest(r, None)
        \/ LoadFresh(r)
        \/ \E key \in Keys, s \in SetValues : SessionSet(r, key, s)
        \/ SessionClear(r)
        \/ FinalizeBegin(r)
        \/ FinalizeStep(r, TRUE)
        \/ Respond(r)

SpecCookie == InitCookie /\ [][NextCookie]_vars

----------------------------------------------------------------------------
(* The session record under the calls of one handler, their results kept.
   The record starts in any value of its type: SessionStatus has five
   variants, of which the crate itself assigns UnChange, Change and Clear. *)

RecordKeys == {"count", "name"}
RecordValues == {I32(1), I32(2), F64(1), F64Infinity, TupleKeyMap}
RecordTypes == {"i32", "f64"}

Records ==
    {[id |-> 1, data |-> d, status |-> st] :
        d \in {EmptyMap, [k \in {"count"} |-> ToStringI32(1)]},
        st \in Statuses}

InitRecord ==
    /\ adapter = "axum"
    /\ auto_expire = DefaultAutoExpire
    /\ builder = DefaultBuilder
    /\ storage = RedisNew
    /\ outcome = NoOutcome
    /\ store = [k \in {} |-> <<>>]
    /\ nextId = 1
    /\ issued = {}
    /\ started = 1
    /\ failures = 0
    /\ \E rec \in Records :
          req = [r \in Reqs |->
                    [IdleReq EXCEPT !.pc = "handler", !.path = "nocookie",
                                    !.inner = rec, !.id0 = rec.id]]
    /\ chain = BrokenChain

(* One call of the Session API: the record before and after, and what came
   back: got for get, ok for set, count for len *)
Call(op, key, type, value) == [op |-> op, key |-> key, type |-> type, value |-> value]
NoValue == [type |-> "", class |-> "", v |-> 0]
Back(got, ok, count) == [got |-> got, ok |-> ok, count |-> count]

Traced(r, call, after, back) ==
    [req EXCEPT
        ![r].inner = after,
        ![r].trace = Append(@, [op |-> call.op, key |-> call.key,
                                type |-> call.type, value |-> call.value,
                                before |-> req[r].inner, after |-> after,
                                got |-> back.got, ok |-> back.ok,
                                count |-> back.count])]

Tracing(r) == req[r].pc = "handler" /\ Len(req[r].trace) < MaxOps

GetCall(r, key, type) ==
    /\ Tracing(r)
    /\ LET got == GetAs(req[r].inner, key, type)
       IN req' = Traced(r, Call("get", key, type, NoValue), req[r].inner,
                        Back(got, got # None, 0))
    /\ UNCHANGED <<adapter, auto_expire, builder, storage, outcome, store, nextId, issued, started, failures, chain>>

SetCall(r, key, value) ==
    /\ Tracing(r)
    /\ LET done == SetValue(req[r].inner, key, value)
       IN req' = Traced(r, Call("set", key, value.type, value), done.inner,
                        Back(None, done.ok, 0))
    /\ UNCHANGED <<adapter, auto_expire, builder, storage, outcome, store, nextId, issued, started, failures, chain>>

RemoveCall(r, key) ==
    /\ Tracing(r)
    /\ req' = Traced(r, Call("remove", key, "", NoValue),
                     Remove(req[r].inner, key), Back(None, TRUE, 0))
    /\ UNCHANGED <<adapter, auto_expire, builder, storage, outcome, store, nextId, issued, started, failures, chain>>

ClearCall(r) ==
    /\ Tracing(r)
    /\ req' = Traced(r, Call("clear", "", "", NoValue),
                     Clear(req[r].inner), Back(None, TRUE, 0))
    /\ UNCHANGED <<adapter, auto_expire, builder, storage, outcome, store, nextId, issued, started, failures, chain>>

LenCall(r) ==
    /\ Tracing(r)
    /\ req' = Traced(r, Call("len", "", "", NoValue), req[r].inner,
                     Back(None, TRUE, Cardinality(DOMAIN req[r].inner.data)))
    /\ UNCHANGED <<adapter, auto_expire, builder, storage, outcome, store, nextId, issued, started, failures, chain>>

NextRecord ==
    \E r \in Reqs :
        \/ \E key \in RecordKeys, type \in RecordTypes : GetCall(r, key, type)
        \/ \E key \in RecordKeys, value \in RecordValues : SetCall(r, key, value)
        \/ \E key \in RecordKeys : RemoveCall(r, key)
        \/ ClearCall(r)
        \/ LenCall(r)

SpecRecord == InitRecord /\ [][NextRecord]_vars

----------------------------------------------------------------------------
(* Finalize on a record of any status. The handler has returned; the store
   holds the record's data under its id, or nothing. *)

InitFinalize ==
    /\ adapter \in Adapters
    /\ auto_expire \in BOOLEAN
    /\ builder = DefaultBuilder
    /\ storage = RedisNew
    /\ outcome = NoOutcome
    /\ nextId = 1
    /\ issued = {}
    /\ started = 1
    /\ failures = 0
    /\ \E rec \in Records :
          /\ req = [r \in Reqs |->
                       [IdleReq EXCEPT !.pc = "handler", !.path = "nocookie",
                                       !.inner = rec, !.id0 = rec.id]]
          /\ store \in {[k \in {} |-> <<>>],
                        RedisSet([k \in {} |-> <<>>], rec.id, ToJsonMap(rec.data))}
    /\ chain = BrokenChain

NextFinalize ==
    \E r \in Reqs :
        \/ FinalizeBegin(r)
        \/ \E connOk \in BOOLEAN : FinalizeStep(r, connOk)
        \/ Respond(r)

SpecFinalize == InitFinalize /\ [][NextFinalize]_vars

----------------------------------------------------------------------------
(* Configuration: SessionBuilder::new() and its setters, in any order. A
   rand_key whose assertion fails panics: the configuration ends there. *)

Lens == {0, 1, 32, 63, 64, 65, 512, 1023, 1024, 1025, 4096}
RandKeys == {Random(n) : n \in Lens} \cup {RandomSha256(n) : n \in Lens}
                \cup {UuidV4, UuidV7}

InitConfig ==
    /\ adapter = "axum"
    /\ auto_expire = DefaultAutoExpire
    /\ builder = DefaultBuilder
    /\ storage = RedisNew
    /\ outcome = NoOutcome
    /\ store = [k \in {} |-> <<>>]
    /\ nextId = 0
    /\ issued = {}
    /\ started = 0
    /\ failures = 0
    /\ req = [r \in Reqs |-> IdleReq]
    /\ chain = BrokenChain

Configuring == outcome.ok

(* key, domain, secure, http_only, max_age, same_site, refresh_strategy:
   the field is assigned *)
SetField(b) ==
    /\ Configuring
    /\ b \in Builders
    /\ \E f \in {"key", "domain", "secure", "http_only", "max_age",
                  "same_site", "refresh_strategy"} :
          /\ b[f] # builder[f]
          /\ builder' = [builder EXCEPT ![f] = b[f]]
    /\ outcome' = [call |-> "field", arg |-> UuidV7, ok |-> TRUE]
    /\ UNCHANGED <<adapter, auto_expire, storage, store, nextId, issued, started, failures, req, chain>>

SetRandKey(rand_key) ==
    /\ Configuring
    /\ IF RandKeyAccepts(rand_key)
       THEN /\ builder' = [builder EXCEPT !.rand_key = rand_key]
            /\ outcome' = [call |-> "rand_key", arg |-> rand_key, ok |-> TRUE]
       ELSE /\ builder' = builder
            /\ outcome' = [call |-> "rand_key", arg |-> rand_key, ok |-> FALSE]
    /\ UNCHANGED <<adapter, auto_expire, storage, store, nextId, issued, started, failures, req, chain>>

NextConfig ==
    \/ \E b \in Builders : SetField(b)
    \/ \E rand_key \in RandKeys : SetRandKey(rand_key)

SpecConfig == InitConfig /\ [][NextConfig]_vars

----------------------------------------------------------------------------
(* The handler's way to its session: FromRequest for Session (actix, axum),
   SessionDepotExt::inner_session (salvo).  A request is served behind the
   middleware (it left the record in the request context) or on a route the
   middleware does not wrap; an actix application may have registered
   Rc<SessionBuilder> as app_data. *)

(* An extractor that falls back to a default configuration when it finds none *)
ExtractionFallsBack(ad, has_record, has_config) ==
    IF ad = "salvo" /\ ~has_record THEN "none"
    ELSE IF ad = "axum" /\ ~has_record THEN "error500"
    ELSE "session"

(* actix: the record of the extensions, else a new record from the
   configuration, else ErrorInternalServerError("session config not found");
   axum: the Session of the extensions, else (INTERNAL_SERVER_ERROR,
   "session not found"); salvo: obtain::<Session>().ok(), an Option *)
Extraction(ad, has_record, has_config) ==
    CASE ad = "actix" -> IF has_record \/ has_config THEN "session" ELSE "error500"
      [] ad = "axum"  -> IF has_record THEN "session" ELSE "error500"
      [] ad = "salvo" -> IF has_record THEN "session" ELSE "none"

HasRecord(r) == req[r].wrapped
HasConfig(r) == adapter = "actix" /\ req[r].app_data

InitExtract ==
    /\ adapter \in Adapters
    /\ auto_expire = DefaultAutoExpire
    /\ builder = DefaultBuilder
    /\ storage = RedisNew
    /\ outcome = NoOutcome
    /\ store = [k \in {} |-> <<>>]
    /\ nextId = 0
    /\ issued = {}
    /\ started = 0
    /\ failures = 0
    /\ req = [r \in Reqs |-> IdleReq]
    /\ chain = BrokenChain

(* A request to a handler that the session middleware does not wrap *)
StartUnwrapped(r, app_data) ==
    /\ req[r].pc = "idle"
    /\ started < MaxRequests
    /\ started' = started + 1
    /\ req' = [req EXCEPT ![r] = [IdleReq EXCEPT !.pc = "handler",
                                                 !.path = "unwrapped",
                                                 !.wrapped = FALSE,
                                                 !.app_data = app_data]]
    /\ chain' = Keep(FALSE)
    /\ UNCHANGED <<adapter, auto_expire, builder, storage, outcome, store, nextId, issued, failures>>

(* The framework runs the extractor before the handler body *)
Extract(r) ==
    /\ req[r].pc = "handler"
    /\ req[r].extracted = "no"
    /\ LET got == Extraction(adapter, HasRecord(r), HasConfig(r))
           made == got = "session" /\ ~HasRecord(r)
       IN /\ nextId' = IF made THEN nextId + 1 ELSE nextId
          /\ req' = [req EXCEPT
                ![r].extracted = got,
                ![r].inner = IF made THEN New(nextId + 1) ELSE @,
                ![r].pc = IF got = "error500" THEN "failed" ELSE @,
                ![r].err = IF got = "error500" THEN "config" ELSE @]
    /\ chain' = Keep(FALSE)
    /\ UNCHANGED <<adapter, auto_expire, builder, storage, outcome, store, issued, started, failures>>

(* The unwrapped handler returns: nothing of the session layer runs *)
Return(r) ==
    /\ req[r].pc = "handler"
    /\ ~req[r].wrapped
    /\ req[r].extracted # "no"
    /\ req' = [req EXCEPT ![r] = IdleReq]
    /\ UNCHANGED <<adapter, auto_expire, builder, storage, outcome, store, nextId, issued, started, failures, chain>>

NextExtract ==
    \E r \in Reqs :
        \/ \E c \in {None} \cup {Some(i) : i \in issued \cup ForgedIds} : StartRequest(r, c)
        \/ \E app_data \in BOOLEAN : StartUnwrapped(r, app_data)
        \/ LoadFresh(r)
        \/ \E connOk \in BOOLEAN : LoadGet(r, connOk)
        \/ \E connOk \in BOOLEAN : LoadRemove(r, connOk)
        \/ Extract(r)
        \/ \E key \in Keys, s \in SetValues :
              req[r].extracted = "session" /\ SessionSet(r, key, s)
        \/ req[r].wrapped /\ req[r].extracted # "no" /\ FinalizeBegin(r)
        \/ \E connOk \in BOOLEAN : FinalizeStep(r, connOk)
        \/ Respond(r)
        \/ Return(r)
        \/ Abort(r)

SpecExtract == InitExtract /\ [][NextExtract]_vars

----------------------------------------------------------------------------
(* The store behind its API: RedisSessionStorage and
   RedisClusterSessionStorage called with session keys, on a Redis keyspace
   that other clients write to as well.  Strings are sequences of
   characters; the keyspace maps backend keys to their value and TTL. *)

Prefixes == {<<>>, <<"s", ":">>}
StoreKeys == {ToStringI32(1), ToStringI32(2)}
StoreData == {EmptyMap, [k \in {"count"} |-> ToStringI32(1)]}
ForeignKey == <<"a", "p", "p">>
ForeignText == <<(<<"owner", <<"x">> >>)>>
StoreKinds == {"redis", "cluster"}

(* format!("{}{}", self.prefix, key) *)
BackendKey(prefix, key) == prefix \o key

(* expire that sends the session key without the prefix *)
StoreExpireNoPrefix(st, s, key, t) == RedisExpire(s, key, t)

(* clear that deletes the keys under the store's prefix only *)
StoreClearOwnPrefix(st, s) ==
    LET Under(k) == /\ Len(st.prefix) <= Len(k)
                    /\ SubSeq(k, 1, Len(st.prefix)) = st.prefix
                    /\ k # ForeignKey
    IN [k \in {x \in DOMAIN s : ~Under(x)} |-> s[k]]

(* SessionStore::get, set, remove, expire, clear of a store st on keyspace s *)
StoreGetAt(st, s, key, connOk, fresh) ==
    StoreGet(s, BackendKey(st.prefix, key), connOk, fresh)

StoreSet(st, s, key, data) == RedisSet(s, BackendKey(st.prefix, key), ToJsonMap(data))

StoreRemove(st, s, key) == RedisDel(s, BackendKey(st.prefix, key))

StoreExpire(st, s, key, t) == RedisExpire(s, BackendKey(st.prefix, key), t)

(* FLUSHALL *)
StoreClear(st, s) == [k \in {} |-> <<>>]

(* What the last call was, what it returned, which keys the backend held
   before it *)
Result(call, key, ok, got, ttl, before) ==
    [call |-> call, key |-> key, ok |-> ok, got |-> got, ttl |-> ttl, before |-> before]

InitStore ==
    /\ adapter = "axum"
    /\ auto_expire = DefaultAutoExpire
    /\ builder = DefaultBuilder
    /\ storage \in [kind : StoreKinds, prefix : Prefixes]
    /\ storage.kind = "redis" => storage.prefix = RedisNew.prefix
    /\ outcome = Result("none", <<>>, TRUE, None, 0, {})
    /\ store = [k \in {} |-> <<>>]
    /\ nextId = 0
    /\ issued = {}
    /\ started = 0
    /\ failures = 0
    /\ req = [r \in Reqs |-> IdleReq]
    /\ chain = BrokenChain

StoreUnchanged == UNCHANGED <<adapter, auto_expire, builder, nextId, issued, started, failures, req, chain>>

(* RedisSessionStorage::set_prefix *)
SetPrefix(prefix) ==
    /\ storage.kind = "redis"
    /\ storage' = [storage EXCEPT !.prefix = prefix]
    /\ outcome' = Result("set_prefix", prefix, TRUE, None, 0, DOMAIN store)
    /\ UNCHANGED store
    /\ StoreUnchanged

StoreGetCall(key, connOk) ==
    /\ outcome' = Result("get", key, StoreGetAt(storage, store, key, connOk, nextId + 1) # None,
                         IF StoreGetAt(storage, store, key, connOk, nextId + 1) = None
                         THEN None
                         ELSE Some(StoreGetAt(storage, store, key, connOk, nextId + 1)[1].data),
                         0, DOMAIN store)
    /\ UNCHANGED <<storage, store>>
    /\ StoreUnchanged

StoreSetCall(key, data, connOk) ==
    /\ store' = IF connOk THEN StoreSet(storage, store, key, data) ELSE store
    /\ outcome' = Result("set", key, connOk, Some(data), 0, DOMAIN store)
    /\ UNCHANGED storage
    /\ StoreUnchanged

StoreRemoveCall(key, connOk) ==
    /\ store' = IF connOk THEN StoreRemove(storage, store, key) ELSE store
    /\ outcome' = Result("remove", key, connOk, None, 0, DOMAIN store)
    /\ UNCHANGED storage
    /\ StoreUnchanged

StoreExpireCall(key, t, connOk) ==
    /\ store' = IF connOk THEN StoreExpire(storage, store, key, t) ELSE store
    /\ outcome' = Result("expire", key, connOk, None, t, DOMAIN store)
    /\ UNCHANGED storage
    /\ StoreUnchanged

StoreClearCall(connOk) ==
    /\ store' = IF connOk THEN StoreClear(storage, store) ELSE store
    /\ outcome' = Result("clear", <<>>, connOk, None, 0, DOMAIN store)
    /\ UNCHANGED storage
    /\ StoreUnchanged

(* Another client of the same Redis writes a key of its own *)
ForeignSet ==
    /\ ForeignKey \notin DOMAIN store
    /\ store' = RedisSet(store, ForeignKey, ForeignText)
    /\ outcome' = Result("foreign", ForeignKey, TRUE, None, 0, DOMAIN store)
    /\ UNCHANGED storage
    /\ StoreUnchanged

NextStore ==
    \/ \E prefix \in Prefixes : SetPrefix(prefix)
    \/ \E key \in StoreKeys, connOk \in BOOLEAN : StoreGetCall(key, connOk)
    \/ \E key \in StoreKeys, data \in StoreData, connOk \in BOOLEAN : StoreSetCall(key, data, connOk)
    \/ \E key \in StoreKeys, connOk \in BOOLEAN : StoreRemoveCall(key, connOk)
    \/ \E key \in StoreKeys, connOk \in BOOLEAN : StoreExpireCall(key, ExpireSecs, connOk)
    \/ \E connOk \in BOOLEAN : StoreClearCall(connOk)
    \/ ForeignSet

SpecStore == InitStore /\ [][NextStore]_vars

----------------------------------------------------------------------------
(* Handlers that put Set-Cookie headers of their own on the response *)

MaxHeaders == 2
HandlerCookies == {"theme", "lang"}

HandlerCookie(name) == [Build(DefaultBuilder, 0) EXCEPT !.name = name]

InitHeader ==
    /\ adapter \in Adapters
    /\ auto_expire = DefaultAutoExpire
    /\ builder = DefaultBuilder
    /\ storage = RedisNew
    /\ outcome = NoOutcome
    /\ store = [k \in {} |-> <<>>]
    /\ nextId = 0
    /\ issued = {}
    /\ started = 0
    /\ failures = 0
    /\ req = [r \in Reqs |-> IdleReq]
    /\ chain = BrokenChain

(* The handler appends a Set-Cookie header to its response *)
HandlerSetCookie(r, name) ==
    /\ req[r].pc = "handler"
    /\ Len(req[r].put) < MaxHeaders
    /\ req' = [req EXCEPT ![r].put = Append(@, HandlerCookie(name)),
                          ![r].headers = HeaderAppend(@, HandlerCookie(name))]
    /\ UNCHANGED <<adapter, auto_expire, builder, storage, outcome, store, nextId, issued, started, failures, chain>>

NextHeader ==
    \E r \in Reqs :
        \/ \E c \in {None} \cup {Some(i) : i \in issued} : StartRequest(r, c)
        \/ LoadFresh(r)
        \/ LoadGet(r, TRUE)
        \/ LoadRemove(r, TRUE)
        \/ \E name \in HandlerCookies : HandlerSetCookie(r, name)
        \/ \E key \in Keys, s \in SetValues : SessionSet(r, key, s)
        \/ SessionClear(r)
        \/ FinalizeBegin(r)
        \/ FinalizeStep(r, TRUE)
        \/ Respond(r)

SpecHeader == InitHeader /\ [][NextHeader]_vars

----------------------------------------------------------------------------
(* The requests of any client: every load path, every Session call, store
   operations that succeed or fail, without the bookkeeping of the counter
   client *)

InitRequests ==
    /\ adapter \in Adapters
    /\ auto_expire \in BOOLEAN
    /\ builder = DefaultBuilder
    /\ storage = RedisNew
    /\ outcome = NoOutcome
    /\ store = [k \in {} |-> <<>>]
    /\ nextId = 0
    /\ issued = {}
    /\ started = 0
    /\ failures = 0
    /\ req = [r \in Reqs |-> IdleReq]
    /\ chain = BrokenChain

NextRequests ==
    \E r \in Reqs :
        \/ \E c \in {None} \cup {Some(i) : i \in issued \cup ForgedIds} : StartRequest(r, c)
        \/ LoadFresh(r)
        \/ \E connOk \in BOOLEAN : LoadGet(r, connOk)
        \/ \E connOk \in BOOLEAN : LoadRemove(r, connOk)
        \/ \E key \in Keys : SessionGet(r, key)
        \/ \E key \in Keys, s \in SetValues : SessionSet(r, key, s)
        \/ \E key \in Keys : SessionRemove(r, key)
        \/ SessionClear(r)
        \/ SessionLen(r)
        \/ ServiceErr(r)
        \/ Abort(r)
        \/ FinalizeBegin(r)
        \/ \E connOk \in BOOLEAN : FinalizeStep(r, connOk)
        \/ Respond(r)

SpecRequests == InitRequests /\ [][NextRequests]_vars

----------------------------------------------------------------------------
(* Properties *)

Loaded(r) == req[r].pc \in {"load_remove", "handler", "finalize", "done"}
Finalizing(r) == req[r].pc \in {"finalize", "done"}
Finished(r) == req[r].pc = "done"

(* The store operations the request has issued, without their outcomes *)
Issued(l) == [i \in 1..Len(l) |-> [op |-> l[i].op, key |-> l[i].key,
                                    data |-> l[i].data, ttl |-> l[i].ttl]]

(* ... those of finalize; those that followed the initial get *)
FinLog(r) == SubSeq(req[r].log, req[r].finFrom + 1, Len(req[r].log))
AfterGet(r) == SubSeq(req[r].log, 2, Len(req[r].log))

AllOk(r) == \A i \in 1..Len(req[r].log) : req[r].log[i].ok

IsPrefix(a, b) == Len(a) <= Len(b) /\ a = SubSeq(b, 1, Len(a))

(* An id nobody outside this request has seen *)
NewlyGenerated(r, id) ==
    /\ id \notin issued \cup ForgedIds
    /\ req[r].cookie # Some(id)

(* C1: for the client of the tests, which sends back the cookie of the
   previous response, one request at a time, every store operation
   succeeding, the index handler of request n+1 reads under "count" the
   value the handler of request n wrote: the first request finds no count
   and writes 1, every later one reads c and writes c + 1. *)
C1_CounterRoundTrip ==
    \A r \in Reqs :
        (chain.ok /\ Loaded(r) /\ req[r].lastMut = "index") =>
            /\ req[r].read = (IF chain.last = 0 THEN None ELSE Some(chain.last))
            /\ req[r].wrote = Some(chain.last + 1)

C1_Witness ==
    \E r \in Reqs :
        /\ chain.ok /\ Finished(r) /\ req[r].lastMut = "index"
        /\ req[r].read = Some(1) /\ req[r].wrote = Some(2)

(* C2: when a request presents cookie id X and the store holds a record
   under X, the record handed to the handler has id X, the store operations
   of finalize are addressed to X, and the response cookie carries X. *)
C2_LoadKeepsId ==
    \A r \in Reqs :
        (Loaded(r) /\ req[r].path = "hit") =>
            /\ req[r].inner.id = req[r].cookie[1]
            /\ \A i \in 1..Len(FinLog(r)) : FinLog(r)[i].key = req[r].cookie[1]
            /\ req[r].resp # None => req[r].resp = req[r].cookie

(* C3: when a request presents a cookie whose id is in the store, load
   returns a record holding the stored data with status UnChange. *)
C3_LoadHitUnchanged ==
    \A r \in Reqs :
        (Loaded(r) /\ req[r].path = "hit" /\ req[r].ncalls = 0) =>
            /\ req[r].inner.data = req[r].stored
            /\ req[r].inner.status = "UnChange"

(* C4: when the record's status at finalize is Change, finalize issues
   exactly remove(id), set(id, data), expire(id, expire_time) on the
   record's id, in that order, and no other store operation, whether or not
   they succeed, in every adapter. *)
C4_ChangedBranch ==
    \A r \in Reqs :
        (Finalizing(r) /\ req[r].inner.status = "Change") =>
            LET want == <<OpRemove(req[r].id0),
                          OpSet(req[r].id0, req[r].inner.data),
                          OpExpire(req[r].id0, ExpireSecs)>>
            IN /\ IsPrefix(Issued(FinLog(r)), want)
               /\ Finished(r) => Issued(FinLog(r)) = want

C4_Witness ==
    \E r \in Reqs :
        /\ Finished(r) /\ req[r].inner.status = "Change"
        /\ req[r].path = "hit" /\ Len(FinLog(r)) = 3
        /\ ~FinLog(r)[1].ok

(* C5: when the record's status at finalize is UnChange, finalize issues no
   set and no remove: exactly expire(id, expire_time) with auto_expire on,
   nothing with auto_expire off. *)
C5_UnchangedBranch ==
    \A r \in Reqs :
        (Finalizing(r) /\ req[r].inner.status = "UnChange") =>
            /\ \A i \in 1..Len(FinLog(r)) : FinLog(r)[i].op \notin {"set", "remove"}
            /\ Finished(r) =>
                  Issued(FinLog(r)) =
                      IF auto_expire THEN <<OpExpire(req[r].inner.id, ExpireSecs)>>
                      ELSE <<>>

(* C6: a request that presents the id of a stored session and whose handler
   only calls get, with auto_expire on, issues after the initial get
   exactly one expire(id, expire_time), no set and no remove. *)
C6_ReadOnlyRequest ==
    \A r \in Reqs :
        (/\ Finalizing(r) /\ req[r].path = "hit" /\ auto_expire
         /\ req[r].onlyGets /\ req[r].ncalls > 0) =>
            /\ \A i \in 1..Len(AfterGet(r)) : AfterGet(r)[i].op = "expire"
            /\ Finished(r) =>
                  Issued(AfterGet(r)) = <<OpExpire(req[r].inner.id, ExpireSecs)>>

(* C7: when the handler's last mutating call is clear(), finalize issues
   exactly one store operation, remove(id), and the response cookie carries
   the id the record was loaded with. *)
C7_ClearedBranch ==
    \A r \in Reqs :
        (Finalizing(r) /\ req[r].lastMut = "clear") =>
            /\ IsPrefix(Issued(FinLog(r)), <<OpRemove(req[r].id0)>>)
            /\ Finished(r) =>
                  /\ Issued(FinLog(r)) = <<OpRemove(req[r].id0)>>
                  /\ req[r].resp = Some(req[r].id0)

C7_Witness ==
    \E r \in Reqs :
        /\ Finished(r) /\ req[r].lastMut = "clear"
        /\ req[r].path = "hit" /\ req[r].ncalls = MaxCalls
        /\ req[r].stored # EmptyMap

(* C8: after a request that presented the id X of a stored session and
   whose handler called clear() has finalized, its store operations
   succeeding, the store holds no record under X. *)
C8_ClearRemovesStored ==
    \A r \in Reqs :
        (/\ Finished(r) /\ req[r].path = "hit"
         /\ req[r].lastMut = "clear" /\ AllOk(r)) =>
            req[r].cookie[1] \notin DOMAIN store

(* C9: when a request carries no session cookie, load produces a record
   with a newly generated id, empty data and status Change, in every
   adapter. *)
C9_NoCookieRecord ==
    \A r \in Reqs :
        (Loaded(r) /\ req[r].path = "nocookie" /\ req[r].ncalls = 0) =>
            /\ NewlyGenerated(r, req[r].inner.id)
            /\ req[r].inner.data = EmptyMap
            /\ req[r].inner.status = "Change"

(* C10: for a request without the session cookie whose handler makes no
   session call, the store operations succeeding, the response carries a
   cookie with a newly generated id and after finalize the store holds a
   record with empty data under that id. *)
C10_NoCookiePersisted ==
    \A r \in Reqs :
        (/\ Finished(r) /\ req[r].path = "nocookie"
         /\ req[r].ncalls = 0 /\ AllOk(r)) =>
            /\ req[r].resp = Some(req[r].id0)
            /\ NewlyGenerated(r, req[r].id0)
            /\ req[r].id0 \in DOMAIN store
            /\ FromJsonMap(store[req[r].id0].value) = EmptyMap

C10_Witness ==
    \E r \in Reqs :
        /\ Finished(r) /\ req[r].path = "nocookie"
        /\ req[r].ncalls = 0 /\ AllOk(r)
        /\ adapter = "salvo" /\ ~auto_expire
        /\ req[r].id0 \in DOMAIN store

(* C11: when the request carries the session cookie and the store's get
   finds nothing or fails, load hands the handler a record with empty data
   and status Change, the handler runs, and no error of the store reaches
   the caller: the only error a request ends with is the wrapped service's
   own. *)
C11_MissFreshRecord ==
    \A r \in Reqs :
        req[r].path = "miss" =>
            /\ req[r].pc \in {"handler", "finalize", "done", "failed"}
            /\ req[r].ncalls = 0 =>
                  /\ req[r].inner.data = EmptyMap
                  /\ req[r].inner.status = "Change"
            /\ req[r].err \in {"none", "service"}
            /\ req[r].pc = "failed" <=> req[r].err = "service"

(* The get failed although the store holds the key, and the handler ran *)
C11_Witness ==
    \E r \in Reqs :
        /\ req[r].path = "miss"
        /\ ~req[r].log[1].ok
        /\ req[r].cookie[1] \in DOMAIN store
        /\ req[r].pc = "handler"
        /\ req[r].ncalls > 0

(* C12: after a miss the id of the record is newly generated, never the id
   the client presented. *)
C12_MissNewId ==
    \A r \in Reqs :
        (Loaded(r) /\ req[r].path = "miss") =>
            /\ req[r].inner.id # req[r].cookie[1]
            /\ NewlyGenerated(r, req[r].inner.id)

(* C13: until the handler has returned, the only store operation a request
   has issued is the get of load: no set, remove or expire. *)
C13_LoadOnlyGets ==
    \A r \in Reqs :
        req[r].pc \in {"load", "load_remove", "handler", "failed"} =>
            \A i \in 1..Len(req[r].log) : req[r].log[i].op = "get"

(* C14: every response carries the session cookie with the id of the
   request's record, whatever the final status and however the handler
   ended. *)
C14_AlwaysCookie ==
    \A r \in Reqs :
        req[r].pc \in {"done", "failed"} =>
            req[r].resp = Some(req[r].inner.id)

(* C15: a store operation that fails during finalize is discarded: the
   operations of the branch are all attempted, in order, and the request
   ends with a response that carries the cookie, not with an error. *)
C15_FinalizeFailuresDiscarded ==
    \A r \in Reqs :
        Finished(r) =>
            LET fin == FinLog(r)
                names == [i \in 1..Len(fin) |-> fin[i].op]
                status == req[r].inner.status
            IN /\ req[r].resp = Some(req[r].inner.id)
               /\ req[r].err = "none"
               /\ status = "Change" => names = <<"remove", "set", "expire">>
               /\ status = "Clear" => names = <<"remove">>
               /\ status = "UnChange" =>
                     names = IF ~auto_expire THEN <<"set">>
                             ELSE IF adapter = "actix" THEN <<"set", "expire">>
                             ELSE <<"expire", "set">>

(* The first operation of the Change branch failed, the two after it were
   attempted and the response carries the cookie *)
C15_Witness ==
    \E r \in Reqs :
        /\ Finished(r)
        /\ req[r].inner.status = "Change"
        /\ Len(FinLog(r)) = 3
        /\ ~FinLog(r)[1].ok
        /\ FinLog(r)[3].ok
        /\ req[r].resp # None

(* What adapter ad does with the input of request r -- its cookie, the record
   the store held, the handler's calls -- every store operation succeeding:
   the operations of load and finalize in order, each key and the cookie's
   id named by its provenance. *)
Provenance(r, id) == IF req[r].cookie = Some(id) THEN "presented" ELSE "generated"

RecordOf(ad, r) ==
    LET fresh == nextId + 1
        rec == CASE req[r].path = "nocookie" -> LoadNoCookie(ad, fresh)
                 [] req[r].path = "hit" ->
                        [New(fresh) EXCEPT !.data = req[r].stored]
                 [] req[r].path = "miss" ->
                        LoadMiss(ad, req[r].cookie[1], fresh)
    IN [rec EXCEPT !.data = req[r].inner.data,
                   !.status = CASE req[r].lastMut = "none" -> @
                                [] req[r].lastMut = "clear" -> "Clear"
                                [] OTHER -> "Change"]

OpsOf(ad, r) ==
    LET fin == FinalizeOps(ad, RecordOf(ad, r), auto_expire)
        load == CASE req[r].path = "nocookie" -> <<>>
                  [] req[r].path = "hit" /\ ad = "actix" ->
                        <<OpGet(req[r].cookie[1]), OpRemove(req[r].cookie[1])>>
                  [] OTHER -> <<OpGet(req[r].cookie[1])>>
        all == load \o fin
    IN [i \in 1..Len(all) |-> <<all[i].op, Provenance(r, all[i].key)>>]

(* C16: on the same cookie, store contents, handler calls and store
   outcomes, the actix, axum and salvo adapters issue the same store
   operations on the same keys in the same order, and their cookies carry
   an id of the same provenance. *)
C16_AdaptersAgree ==
    \A r \in Reqs :
        (Finished(r) /\ AllOk(r)) =>
            \A a, b \in Adapters :
                /\ OpsOf(a, r) = OpsOf(b, r)
                /\ Provenance(r, RecordOf(a, r).id) = Provenance(r, RecordOf(b, r).id)

(* C19: from the end of load to the end of the request the id of the record
   is the one load gave it, whatever the handler calls, and the id in the
   response cookie is the key of every store operation of finalize. *)
C19_IdStable ==
    \A r \in Reqs :
        /\ (Loaded(r) \/ req[r].pc = "failed") => req[r].inner.id = req[r].id0
        /\ Finalizing(r) =>
              \A i \in 1..Len(FinLog(r)) : FinLog(r)[i].key = req[r].id0
        /\ Finished(r) =>
              /\ req[r].resp = Some(req[r].id0)
              /\ \A i \in 1..Len(FinLog(r)) : FinLog(r)[i].key = req[r].resp[1]

(* The handler set a value and then cleared the session; finalize issued
   its operation and the cookie is out *)
C19_Witness ==
    \E r \in Reqs :
        /\ Finished(r)
        /\ req[r].ncalls = 2
        /\ req[r].lastMut = "clear"
        /\ ~req[r].onlyGets
        /\ Len(FinLog(r)) = 1
        /\ FinLog(r)[1].key = req[r].resp[1]

(* C17: when two requests that presented the same id X were in flight
   together, both changed the session and both have finalized, every store
   operation succeeding, the store holds under X what the request that
   finalized last left: its data, or nothing if it cleared the session. *)
C17_LastWriteWins ==
    \A r, q \in DOMAIN req :
        (/\ r # q
         /\ Finished(r) /\ Finished(q)
         /\ req[r].cookie # None /\ req[r].cookie = req[q].cookie
         /\ req[r].overlapped \/ req[q].overlapped
         /\ req[r].lastMut # "none" /\ req[q].lastMut # "none"
         /\ AllOk(r) /\ AllOk(q)
         /\ req[r].doneAt > req[q].doneAt) =>
            LET X == req[r].cookie[1]
            IN IF req[r].inner.status = "Clear"
               THEN X \notin DOMAIN store
               ELSE /\ X \in DOMAIN store
                    /\ FromJsonMap(store[X].value) = req[r].inner.data

(* C18: while a request is in its handler its record changes by its own
   session calls only: no step of another request, a set, remove or clear
   on the same session id included, changes its data or status. *)
C18_RecordsNotShared ==
    [][\A q \in DOMAIN req :
          (/\ req[q].pc = "handler"
           /\ req'[q].pc = "handler"
           /\ req'[q].ncalls = req[q].ncalls) =>
              req'[q].inner = req[q].inner]_vars

(* Two requests loaded the same stored session; one has cleared it, the
   other, still in its handler, holds the record as it was loaded *)
C18_Witness ==
    \E r, q \in DOMAIN req :
        /\ r # q
        /\ req[r].pc = "handler" /\ req[q].pc = "handler"
        /\ req[r].path = "hit" /\ req[q].path = "hit"
        /\ req[r].cookie = req[q].cookie
        /\ req[r].lastMut = "clear"
        /\ req[r].inner.data = EmptyMap
        /\ req[q].ncalls = 0
        /\ req[q].inner.data = req[q].stored
        /\ req[q].inner.data # EmptyMap
        /\ req[q].inner.status = "Change"

(* C20: whatever the final status, the cookie of the response has the name,
   domain, path, secure, http-only, same-site and max-age of the
   SessionBuilder in use, and an Expires exactly when the refresh strategy
   is PersistentStorage; nothing in it but the value comes from the
   record. *)
C20_CookieFidelity ==
    \A r \in Reqs :
        req[r].set_cookie # None =>
            LET c == req[r].set_cookie[1]
            IN /\ c.name = builder.key
               /\ c.value = req[r].inner.id
               /\ c.domain = Some(builder.domain)
               /\ c.path = Some(builder.path)
               /\ c.secure = Some(builder.secure)
               /\ c.http_only = Some(builder.http_only)
               /\ c.same_site = builder.same_site
               /\ c.max_age = builder.max_age
               /\ c.expires # None <=>
                     builder.refresh_strategy.kind = "PersistentStorage"
               /\ c.expires # None =>
                     c.expires[1].now_plus = builder.refresh_strategy.duration

(* A session cookie with Max-Age set and no Expires, for a cleared session *)
C20_Witness ==
    \E r \in Reqs :
        /\ Finished(r)
        /\ req[r].inner.status = "Clear"
        /\ req[r].set_cookie # None
        /\ builder.max_age # None
        /\ builder.refresh_strategy.kind = "BrowserLifeCycle"
        /\ ~builder.secure
        /\ req[r].set_cookie[1].expires = None
        /\ req[r].set_cookie[1].max_age = builder.max_age

(* The calls a handler has made on its record, in order *)
TraceOf(r) == req[r].trace
Steps(r) == 1..Len(req[r].trace)

(* C21: get (and len) leave the record as it was; a set that succeeds and
   every remove, of an absent key too, leave status Change; clear leaves
   empty data and status Clear; whatever the status before. *)
C21_CallEffects ==
    \A r \in Reqs : \A i \in Steps(r) :
        LET t == TraceOf(r)[i]
        IN /\ t.op \in {"get", "len"} => t.after = t.before
           /\ (t.op = "set" /\ t.ok) =>
                 /\ t.after.status = "Change"
                 /\ t.key \in DOMAIN t.after.data
                 /\ t.after.data[t.key] = ToJson(t.value)[1]
           /\ t.op = "remove" =>
                 /\ t.after.status = "Change"
                 /\ t.key \notin DOMAIN t.after.data
           /\ t.op = "clear" =>
                 /\ t.after.status = "Clear"
                 /\ t.after.data = EmptyMap

(* A remove of a key the record did not hold, on a cleared record, and a
   get on a record of each other status *)
C21_Witness ==
    \E r \in Reqs : \E i, j \in Steps(r) :
        /\ TraceOf(r)[i].op = "remove"
        /\ TraceOf(r)[i].key \notin DOMAIN TraceOf(r)[i].before.data
        /\ TraceOf(r)[i].before.status = "Clear"
        /\ TraceOf(r)[i].after.status = "Change"
        /\ TraceOf(r)[j].op = "get"
        /\ TraceOf(r)[j].before.status = "Destroy"

(* C22: once the status is Change, Clear or Destroy, no later call of the
   handler -- get, set, remove, clear, len -- leaves it UnChange. *)
C22_StaysDirty ==
    \A r \in Reqs : \A i, j \in Steps(r) :
        (/\ i <= j
         /\ TraceOf(r)[i].before.status \in {"Change", "Clear", "Destroy"}) =>
            TraceOf(r)[j].after.status # "UnChange"

(* A changed record was read, cleared and written again *)
C22_Witness ==
    \E r \in Reqs :
        /\ Len(TraceOf(r)) = 3
        /\ TraceOf(r)[1].before.status = "Change"
        /\ TraceOf(r)[1].op = "get"
        /\ TraceOf(r)[2].op = "clear"
        /\ TraceOf(r)[3].op = "set"
        /\ TraceOf(r)[3].ok

(* C23: a set(k, v) that succeeded, then a get(k) of v's type with no
   remove(k), clear or set(k, .) in between: the get returns v. (A later
   set(k, v2) is the same case with v2 for v.) *)
C23_SetGetRoundTrip ==
    \A r \in Reqs : \A i, j \in Steps(r) :
        LET s == TraceOf(r)[i]
            g == TraceOf(r)[j]
        IN (/\ i < j
            /\ s.op = "set" /\ s.ok
            /\ g.op = "get" /\ g.key = s.key /\ g.type = s.type
            /\ \A m \in (i + 1)..(j - 1) :
                  /\ TraceOf(r)[m].op # "clear"
                  /\ TraceOf(r)[m].op \in {"set", "remove"} =>
                        TraceOf(r)[m].key # s.key) =>
               g.got = Some(s.value.v)

(* C24: a set whose value cannot be serialized returns an error and leaves
   data and status as they were; a get that finds no value under the key,
   or one it cannot deserialize, returns an error and leaves them too. *)
C24_FailedCallsChangeNothing ==
    \A r \in Reqs : \A i \in Steps(r) :
        LET t == TraceOf(r)[i]
        IN /\ (t.op = "set" /\ ToJson(t.value) = None) =>
                 ~t.ok /\ t.after = t.before
           /\ (t.op = "set" /\ ~t.ok) => t.after = t.before
           /\ (t.op = "get" /\ t.key \notin DOMAIN t.before.data) =>
                 ~t.ok /\ t.got = None /\ t.after = t.before
           /\ (/\ t.op = "get" /\ t.key \in DOMAIN t.before.data
               /\ FromStr(t.type, t.before.data[t.key]) = None) =>
                 ~t.ok /\ t.got = None /\ t.after = t.before

(* A value was stored that reads back as nothing of its type; then a set
   that could not serialize and a get that could not deserialize both
   failed and left the record as it was *)
C24_Witness ==
    \E r \in Reqs :
        /\ Len(TraceOf(r)) = 3
        /\ TraceOf(r)[1].op = "set" /\ TraceOf(r)[1].ok
        /\ TraceOf(r)[2].op = "set" /\ ~TraceOf(r)[2].ok
        /\ TraceOf(r)[2].before.data # EmptyMap
        /\ TraceOf(r)[3].op = "get" /\ ~TraceOf(r)[3].ok
        /\ TraceOf(r)[3].key \in DOMAIN TraceOf(r)[3].before.data
        /\ req[r].inner = TraceOf(r)[1].after

(* C30: clear called twice in a row leaves the record as one clear does:
   empty data and status Clear, whatever the record was before. *)
C30_ClearIdempotent ==
    \A r \in Reqs : \A i \in Steps(r) :
        (/\ i + 1 \in Steps(r)
         /\ TraceOf(r)[i].op = "clear"
         /\ TraceOf(r)[i + 1].op = "clear") =>
            /\ TraceOf(r)[i + 1].after = TraceOf(r)[i].after
            /\ TraceOf(r)[i + 1].after.data = EmptyMap
            /\ TraceOf(r)[i + 1].after.status = "Clear"
            /\ TraceOf(r)[i + 1].after.id = TraceOf(r)[i].before.id

(* A record that held a value was cleared twice *)
C30_Witness ==
    \E r \in Reqs :
        /\ Len(TraceOf(r)) = 2
        /\ TraceOf(r)[1].op = "clear"
        /\ TraceOf(r)[1].before.data # EmptyMap
        /\ TraceOf(r)[1].before.status = "Change"
        /\ TraceOf(r)[2].op = "clear"
        /\ req[r].inner.status = "Clear"

(* C29: on a record of status Destroy finalize issues remove(id) and
   nothing else; on status Expire it issues expire(id, expire_time) and
   nothing else, auto_expire or not; neither issues a set, and the cookie of
   the response carries the record's id. *)
C29_DestroyAndExpireBranches ==
    \A r \in Reqs :
        (Finished(r) /\ req[r].inner.status \in {"Destroy", "Expire"}) =>
            /\ Issued(FinLog(r)) =
                  IF req[r].inner.status = "Destroy"
                  THEN <<OpRemove(req[r].inner.id)>>
                  ELSE <<OpExpire(req[r].inner.id, ExpireSecs)>>
            /\ \A i \in 1..Len(req[r].log) : req[r].log[i].op # "set"
            /\ req[r].resp = Some(req[r].inner.id)
            /\ req[r].set_cookie # None
            /\ req[r].set_cookie[1].value = req[r].inner.id

(* A record of status Expire holding a value, auto_expire off: the stored
   copy got its TTL and the response its cookie *)
C29_Witness ==
    \E r \in Reqs :
        /\ Finished(r)
        /\ req[r].inner.status = "Expire"
        /\ req[r].inner.data # EmptyMap
        /\ ~auto_expire
        /\ Len(FinLog(r)) = 1
        /\ FinLog(r)[1].ok
        /\ req[r].inner.id \in DOMAIN store
        /\ store[req[r].inner.id].ttl = Some(ExpireSecs)
        /\ req[r].resp # None

(* C27 as stated: rand_key rejects every Random / RandomSha256 length under
   64 or over 1024, accepts every length from 64 to 1024 inclusive, and
   accepts UuidV4 and UuidV7. *)
C27_RandKeyBoundsInclusive ==
    outcome.call = "rand_key" =>
        IF outcome.arg.kind \in {"UuidV4", "UuidV7"}
        THEN outcome.ok
        ELSE /\ (outcome.arg.len < 64 \/ outcome.arg.len > 1024) => ~outcome.ok
             /\ (outcome.arg.len >= 64 /\ outcome.arg.len <= 1024) => outcome.ok

(* C27, amended: rand_key accepts a Random / RandomSha256 length exactly
   when it is greater than 64 and less than 1024 -- 64 and 1024 themselves
   are rejected -- and accepts UuidV4 and UuidV7; an accepted strategy is
   the builder's, a rejected one leaves no builder to use. *)
C27_RandKeyBoundsExclusive ==
    outcome.call = "rand_key" =>
        /\ outcome.ok <=>
              \/ outcome.arg.kind \in {"UuidV4", "UuidV7"}
              \/ outcome.arg.len \in 65..1023
        /\ outcome.ok => builder.rand_key = outcome.arg
        /\ ~outcome.ok => ~ENABLED NextConfig

(* rand_key(RandKey::RandomSha256(64)) panicked *)
C27_Witness ==
    /\ outcome.call = "rand_key"
    /\ outcome.arg = RandomSha256(64)
    /\ ~outcome.ok

(* C28: when the extractor finds neither a session record nor the session
   configuration in the request context (actix, axum), extraction fails with
   a 500-class error and no session; and that is the only way the session
   layer ends a request in an error: a request that failed had this
   extraction failure, a request with failed store operations at load or
   finalize did not fail. *)
C28_ExtractorFailure ==
    \A r \in DOMAIN req :
        /\ ( /\ adapter \in {"actix", "axum"}
             /\ req[r].extracted # "no"
             /\ ~HasRecord(r) /\ ~HasConfig(r) )
           => /\ req[r].extracted = "error500"
              /\ req[r].pc = "failed"
              /\ req[r].err = "config"
              /\ req[r].resp = None
        /\ req[r].pc = "failed"
           => /\ req[r].extracted = "error500"
              /\ ~HasRecord(r) /\ ~HasConfig(r)
              /\ req[r].log = <<>>
        /\ (\E i \in DOMAIN req[r].log : ~req[r].log[i].ok)
           => req[r].pc # "failed"

C28_Witness ==
    \E r \in DOMAIN req :
        /\ adapter = "actix"
        /\ req[r].pc = "failed"
        /\ req[r].err = "config"
        /\ ~req[r].wrapped /\ ~req[r].app_data
        /\ failures > 0

(* C25: for a store with prefix p, get, set, remove and expire on session
   key k address the one backend key p followed by k: after a set the key
   holds the written map, get returns it, remove deletes that key and expire
   puts the TTL on it, the other keys left alone; what a get returned is what
   that key holds; this with the prefix set_prefix left, for the Redis and
   the Redis Cluster store. *)
C25_PrefixConsistent ==
    LET k == BackendKey(storage.prefix, outcome.key)
        others == DOMAIN store \ {k}
    IN /\ (outcome.call = "set" /\ outcome.ok)
          => /\ DOMAIN store = outcome.before \cup {k}
             /\ store[k].value = ToJsonMap(outcome.got[1])
             /\ StoreGetAt(storage, store, outcome.key, TRUE, 0) # None
             /\ StoreGetAt(storage, store, outcome.key, TRUE, 0)[1].data = outcome.got[1]
             /\ DOMAIN StoreRemove(storage, store, outcome.key) = others
             /\ StoreExpire(storage, store, outcome.key, ExpireSecs)[k].ttl = Some(ExpireSecs)
             /\ \A j \in others :
                   /\ StoreRemove(storage, store, outcome.key)[j] = store[j]
                   /\ StoreExpire(storage, store, outcome.key, ExpireSecs)[j] = store[j]
       /\ (outcome.call = "get" /\ outcome.ok)
          => /\ k \in DOMAIN store
             /\ outcome.got = Some(FromJsonMap(store[k].value))
       /\ (outcome.call = "remove" /\ outcome.ok)
          => DOMAIN store = outcome.before \ {k}
       /\ (outcome.call = "expire" /\ outcome.ok)
          => /\ DOMAIN store = outcome.before
             /\ k \in DOMAIN store => store[k].ttl = Some(outcome.ttl)

C25_Witness ==
    LET k == BackendKey(storage.prefix, outcome.key)
    IN /\ storage.kind = "redis"
       /\ storage.prefix = <<"s", ":">>
       /\ outcome.call = "get" /\ outcome.ok
       /\ outcome.got = Some([c \in {"count"} |-> ToStringI32(1)])
       /\ store[k].ttl = Some(ExpireSecs)
       /\ outcome.key \in DOMAIN store
       /\ store[outcome.key].value = ToJsonMap(EmptyMap)
       /\ store[outcome.key].ttl = None

(* C26: the store's clear removes every key of the backing store, the keys
   outside the store's prefix included; no finalize branch of any adapter
   and no load issues it. *)
C26_ClearWipesAll ==
    /\ (outcome.call = "clear" /\ outcome.ok) => DOMAIN store = {}
    /\ \A ad \in Adapters, inner \in Records, auto \in BOOLEAN :
          \A i \in DOMAIN FinalizeOps(ad, inner, auto) :
              FinalizeOps(ad, inner, auto)[i].op \in {"set", "remove", "expire"}
    /\ \A r \in DOMAIN req : \A i \in DOMAIN req[r].log :
          req[r].log[i].op \in {"get", "set", "remove", "expire"}

C26_Witness ==
    /\ outcome.call = "clear" /\ outcome.ok
    /\ storage.prefix = <<"s", ":">>
    /\ ForeignKey \in outcome.before
    /\ ToStringI32(2) \in outcome.before
    /\ BackendKey(storage.prefix, ToStringI32(1)) \in outcome.before
    /\ DOMAIN store = {}

(* C31: after a finalize in the Changed branch whose remove, set and expire
   all succeeded, the record stored under the session id holds exactly the
   key-value pairs of the in-memory record: nothing of the value stored
   before survives, the keys the handler removed or cleared included. *)
C31_ChangedReplaces ==
    \A r \in Reqs :
        (/\ Finished(r)
         /\ req[r].inner.status = "Change"
         /\ Len(FinLog(r)) = 3
         /\ \A i \in 1..3 : FinLog(r)[i].ok) =>
            /\ req[r].inner.id \in DOMAIN store
            /\ FromJsonMap(store[req[r].inner.id].value) = req[r].inner.data
            /\ store[req[r].inner.id].value = ToJsonMap(req[r].inner.data)

(* The store held a count under the id; the load failed, the handler removed
   the key, and the finalize wrote the record under the same id *)
C31_Witness ==
    \E r \in Reqs :
        /\ Finished(r)
        /\ req[r].inner.status = "Change"
        /\ Len(FinLog(r)) = 3
        /\ \A i \in 1..3 : FinLog(r)[i].ok
        /\ req[r].held
        /\ req[r].cookie = Some(req[r].inner.id)
        /\ "count" \in DOMAIN req[r].stored
        /\ req[r].lastMut = "remove"
        /\ req[r].inner.data = EmptyMap
        /\ store[req[r].inner.id].value = <<>>

(* C32: the Changed branch of finalize is not atomic: the step that
   performs its remove leaves, before its set, a state in which the store
   holds no record under the session id, so that a load of that id at this
   point (another request's, or the next one after a crash) misses. *)
C32_GapAfterRemove ==
    \A r \in Reqs :
        (/\ req[r].pc = "finalize"
         /\ req[r].inner.status = "Change"
         /\ Len(req[r].pending) = 2
         /\ Head(req[r].pending).op = "set"
         /\ req[r].log[Len(req[r].log)].op = "remove"
         /\ req[r].log[Len(req[r].log)].ok) =>
            /\ req[r].inner.id \notin DOMAIN store
            /\ StoreGet(store, req[r].inner.id, TRUE, nextId + 1) = None
            /\ LoadMiss(adapter, req[r].inner.id, nextId + 1).data = EmptyMap

(* The store held the session under the id when the request began; the
   finalize has removed it and has not yet set it *)
C32_Witness ==
    \E r \in Reqs :
        /\ req[r].pc = "finalize"
        /\ req[r].inner.status = "Change"
        /\ Len(req[r].pending) = 2
        /\ Head(req[r].pending).op = "set"
        /\ req[r].log[Len(req[r].log)].op = "remove"
        /\ req[r].log[Len(req[r].log)].ok
        /\ req[r].held
        /\ req[r].cookie = Some(req[r].inner.id)
        /\ req[r].inner.id \in issued
        /\ "count" \in DOMAIN req[r].stored
        /\ "count" \in DOMAIN req[r].inner.data
        /\ req[r].inner.id \notin DOMAIN store

(* No call of the handler was a clear: it made one call at most and that
   was no clear, or every call was a get *)
NoClearCalled(r) ==
    /\ req[r].lastMut # "clear"
    /\ req[r].ncalls <= 1 \/ req[r].onlyGets

(* C33: if the store holds a record under id X when a request presenting X
   arrives and the handler ends in an error without calling clear, the
   store still holds that record's data when the request has ended, under X
   or under the id issued to the client. *)
C33_FailingHandlerKeepsSession ==
    \A r \in Reqs :
        (/\ req[r].pc = "failed"
         /\ req[r].err = "service"
         /\ req[r].held
         /\ NoClearCalled(r)) =>
            \E k \in DOMAIN store :
                /\ \/ Some(k) = req[r].cookie
                   \/ Some(k) = req[r].resp
                /\ FromJsonMap(store[k].value) = req[r].stored

(* The keys the finalize of the request has set *)
Written(r) == {FinLog(r)[i].key : i \in {j \in 1..Len(FinLog(r)) : FinLog(r)[j].op = "set"}}

(* C34: after a finalize whose store operations all succeeded, every record
   the request wrote to the store carries a TTL equal to expire_time, for
   every final status, load path and adapter. *)
C34_WrittenRecordsExpire ==
    \A r \in Reqs :
        (Finished(r) /\ AllOk(r)) =>
            \A k \in Written(r) :
                k \in DOMAIN store => store[k].ttl = Some(ExpireSecs)

(* C35: after a request that presented the id X of a stored session has
   finalized with its store operations succeeding, a record is left under X
   only if the response cookie still carries X: no record stays under an id
   the client no longer holds. *)
C35_NoOrphanRecord ==
    \A r \in Reqs :
        (/\ Finished(r) /\ AllOk(r)
         /\ req[r].path = "hit") =>
            LET X == req[r].cookie[1]
            IN X \in DOMAIN store => req[r].resp = Some(X)

(* C36: when two requests presenting the same stored id X overlap, the
   second loading before the first has finalized, both handlers are handed
   the data stored under X: the one that loaded while the other was in
   flight is not handed an empty session because of the other's load. *)
C36_OverlappingLoadsAgree ==
    \A r, q \in DOMAIN req :
        (/\ r # q
         /\ Loaded(r) /\ Loaded(q)
         /\ req[r].cookie # None /\ req[r].cookie = req[q].cookie
         /\ req[q].path = "hit"
         /\ req[r].overlapped) =>
            /\ req[r].path = "hit"
            /\ req[r].stored = req[q].stored

(* C37: every session id the middleware generates, on the no-cookie, the
   hit and the miss path, comes from the SessionBuilder's configured
   rand_key strategy, never from the store's rand_key or the UUIDv7 of
   SessionInner::default. *)
C37_IdsFromBuilder ==
    \A r \in Reqs :
        (Loaded(r) /\ req[r].cookie # Some(req[r].id0)) =>
            IdGenerator(adapter, req[r].path) = "builder"

(* C38: under the actix and axum middlewares with the Redis stores the
   status of the record is never UnChange, so the store operations a
   request issues are the same whether auto_expire is true or false. *)
C38_AutoExpireNoEffect ==
    \A r \in Reqs :
        (adapter \in {"actix", "axum"} /\ Loaded(r)) =>
            /\ req[r].inner.status # "UnChange"
            /\ Finished(r) =>
                  Issued(FinLog(r)) = FinalizeOps(adapter, req[r].inner, ~auto_expire)

(* auto_expire is off; a request loaded a stored session, only read it, and
   its finalize issued an expire all the same *)
C38_Witness ==
    \E r \in Reqs :
        /\ adapter = "axum"
        /\ ~auto_expire
        /\ Finished(r)
        /\ req[r].path = "hit"
        /\ req[r].ncalls > 0 /\ req[r].onlyGets
        /\ \E i \in 1..Len(FinLog(r)) : FinLog(r)[i].op = "expire" /\ FinLog(r)[i].ok

(* C39: no load path and no sequence of Session calls yields the status
   Destroy or Expire: the record a request holds, at finalize included, has
   status UnChange, Change or Clear, and the operations finalize issued are
   those of the branch of that status. *)
C39_NoDestroyNoExpire ==
    \A r \in Reqs :
        /\ req[r].inner.status \in {"UnChange", "Change", "Clear"}
        /\ Finished(r) =>
              Issued(FinLog(r)) = FinalizeOps(adapter, req[r].inner, auto_expire)

(* A request that loaded a stored session and made its calls, the last of
   them a clear, has finalized by the Clear branch *)
C39_Witness ==
    \E r \in Reqs :
        /\ Finished(r)
        /\ req[r].path = "hit"
        /\ req[r].ncalls = MaxCalls
        /\ ~req[r].onlyGets
        /\ req[r].lastMut = "clear"
        /\ req[r].inner.status = "Clear"
        /\ Issued(FinLog(r)) = <<OpRemove(req[r].inner.id)>>
        /\ adapter = "salvo"

(* C40: finalize attaches the session Set-Cookie header without removing
   or replacing a Set-Cookie header the handler put on the response: every
   cookie the handler set is in the response that leaves the middleware,
   and so is the session cookie. *)
C40_HandlerCookiesKept ==
    \A r \in Reqs :
        Finished(r) =>
            /\ \A i \in DOMAIN req[r].put :
                  \E j \in DOMAIN req[r].headers : req[r].headers[j] = req[r].put[i]
            /\ \E j \in DOMAIN req[r].headers :
                  Some(req[r].headers[j]) = req[r].set_cookie

====
